---- MODULE Spec2Model ----
(***************************************************************************)
(* A model of eo-learn's Ray integration (core/extra/ray.py), of the log   *)
(* filter, deep_eq and constant_pad of core/utilities/other.py and of the  *)
(* workflow input and output tasks of core/eoworkflow_tasks.py.            *)
(*                                                                         *)
(* Python lists are sequences; a position of a Python list is 0-based, so  *)
(* position p of a list is element p + 1 of the sequence.  None is the     *)
(* empty tuple.                                                            *)
(***************************************************************************)
EXTENDS Integers, Sequences, FiniteSets, TLC

\* ------------------------------------------------------------------ bounds

\* The largest number of run specifications handed to RayExecutor.
MaxRuns == 3

\* How many times a caller joins the list of futures it holds.
MaxJoins == 2

\* The worker threads of the pool, the runs they share, and the log records
\* that are emitted in all.
NumThreads == 2

NumLogRuns == 2

MaxRecords == 3

\* The number of calls of InputTask.execute.
MaxExecutions == 2

\* The largest number of rows and of columns of an image given to constant_pad,
\* and the largest entry of multiple_of.
MaxDim == 4

MaxMultiple == 3

\* The number of feature names an EOPatch given to OutputTask can hold.
NumFeatures == 2

\* The largest length of a list or tuple given to deep_eq.
MaxLen == 2

\* ------------------------------------------------------------ Ray: values

None == <<>>

\* An unbound local variable of the generator (no future was iterated yet).
Unbound == 0

\* ObjectRef handles the cluster can hand out; id(future) is the handle.
Handles == 1 .. MaxRuns

\* The workflow arguments of a run: a run whose arguments are "ok" succeeds, a
\* run whose arguments are "raises" has a task that raises.
WorkflowArgs == {"ok", "raises"}

Range(s) == {s[i] : i \in 1 .. Len(s)}

SeqsUpTo(S, n) == UNION {[1 .. k -> S] : k \in 0 .. n}

InjectiveSeqs(S, n) == {s \in [1 .. n -> S] : \A i, j \in 1 .. n : s[i] = s[j] => i = j}

\* EOExecutor._execute_workflow: a task that raises is recorded in the
\* WorkflowResults of the run, which is returned normally.
execute_workflow(workflow_args) == <<"WorkflowResults", workflow_args, workflow_args = "raises">>

VARIABLES
    rayInitialized,      \* ray.is_initialized()
    capacityQueried,     \* ray.available_resources() was called
    processing_args,     \* the run specifications of the executor
    pc,                  \* where RayExecutor.run is
    remoteArgs,          \* handle -> the workflow_args its remote call was given
    futureState,         \* handle -> "none" | "pending" | "ready" | "lost"
    callerFutures,       \* the list object `futures` of _run_execution
    futures,             \* the local `futures` of join_ray_futures_iter
    id_to_position_map,  \* the local `id_to_position_map`
    done,                \* the local `done`
    future,              \* the loop variable `future`
    pairs,               \* what is left of zip(done, ray.get(done))
    results,             \* the local `results` of join_ray_futures
    emitted,             \* the pairs join_ray_futures_iter has yielded in this join
    joinInput,           \* the content of the list when join_ray_futures was called
    joins                \* the number of calls of join_ray_futures

rayVars == <<rayInitialized, capacityQueried, processing_args, pc, remoteArgs, futureState,
             callerFutures, futures, id_to_position_map, done, future, pairs, results,
             emitted, joinInput, joins>>

VARIABLES
    filterByThread,      \* the handlers are given the name of the current thread
    threadRun,           \* worker thread -> the run it executes, 0 when idle
    runThread,           \* run -> the thread that took it, NoThread before
    runState,            \* run -> "queued" | "running" | "finished"
    handlerFilter,       \* run -> the thread_name of the LogFileFilter of its handler
    stream,              \* run -> the records its handler has written
    ownRecords,          \* run -> the records its thread emitted while it ran
    passedRecords,       \* run -> the records its handler was handed
    nEmitted             \* the number of records emitted so far

logVars == <<filterByThread, threadRun, runThread, runState, handlerFilter, stream, ownRecords,
             passedRecords, nEmitted>>

VARIABLES
    taskCreated,         \* InputTask.__init__ has run
    selfValue,           \* InputTask.value
    executeGiven,        \* the last execute was given a value
    executeValue,        \* the parameter `value` of the last execute
    executeResult,       \* what the last execute returned
    executions           \* the number of calls of execute

taskVars == <<taskCreated, selfValue, executeGiven, executeValue, executeResult, executions>>

VARIABLES
    padShape,            \* X.shape of the image given to constant_pad
    multiple_of,         \* the parameter `multiple_of`
    up_down_rule,        \* the parameter `up_down_rule`
    left_right_rule,     \* the parameter `left_right_rule`
    padState,            \* "called" | "returned" | "ValueError"
    padWidths,           \* ((up, down), (left, right)) as given to np.lib.pad
    padResultShape       \* the shape of the array constant_pad returned

padVars == <<padShape, multiple_of, up_down_rule, left_right_rule, padState, padWidths,
             padResultShape>>

VARIABLES
    outState,            \* "none" | "created" | "returned"
    outName,             \* OutputTask._name
    outFeatures,         \* OutputTask.features
    outData,             \* the object `data` as execute received it
    outDataNow,          \* the object `data` after execute
    outResult,           \* what execute returned
    outResultIsData      \* execute returned the very object it received

outVars == <<outState, outName, outFeatures, outData, outDataNow, outResult, outResultIsData>>

VARIABLES
    fst_obj,             \* the first object of the comparison
    snd_obj,             \* the second object of the comparison
    eqCalled,            \* deep_eq(fst_obj, snd_obj) was called
    eqResult,            \* what it returned
    eqSwappedCalled,     \* deep_eq(snd_obj, fst_obj) was called
    eqSwappedResult      \* what it returned

eqVars == <<fst_obj, snd_obj, eqCalled, eqResult, eqSwappedCalled, eqSwappedResult>>

vars == <<rayVars, logVars, taskVars, padVars, outVars, eqVars>>

\* What the actions of one component leave alone.
notRayVars == <<logVars, taskVars, padVars, outVars, eqVars>>

notLogVars == <<rayVars, taskVars, padVars, outVars, eqVars>>

notTaskVars == <<rayVars, logVars, padVars, outVars, eqVars>>

notPadVars == <<rayVars, logVars, taskVars, outVars, eqVars>>

notOutVars == <<rayVars, logVars, taskVars, padVars, eqVars>>

notEqVars == <<rayVars, logVars, taskVars, padVars, outVars>>

\* ------------------------------------------------------------ idle states

\* The main thread, and no thread.
MainThread == 0

NoThread == -1

WorkerThreads == 1 .. NumThreads

Threads == {MainThread} \cup WorkerThreads

LogRuns == 1 .. NumLogRuns

\* No executor was created.
RayIdle ==
    /\ rayInitialized = FALSE
    /\ capacityQueried = FALSE
    /\ processing_args = <<>>
    /\ pc = "start"
    /\ remoteArgs = [h \in Handles |-> "unset"]
    /\ futureState = [h \in Handles |-> "none"]
    /\ callerFutures = <<>>
    /\ futures = <<>>
    /\ id_to_position_map = <<>>
    /\ done = <<>>
    /\ future = Unbound
    /\ pairs = <<>>
    /\ results = <<>>
    /\ emitted = <<>>
    /\ joinInput = <<>>
    /\ joins = 0

\* No run was taken by a thread and nothing was logged.
LogIdle ==
    /\ filterByThread = TRUE
    /\ threadRun = [t \in WorkerThreads |-> 0]
    /\ runThread = [r \in LogRuns |-> NoThread]
    /\ runState = [r \in LogRuns |-> "queued"]
    /\ handlerFilter = [r \in LogRuns |-> <<>>]
    /\ stream = [r \in LogRuns |-> <<>>]
    /\ ownRecords = [r \in LogRuns |-> <<>>]
    /\ passedRecords = [r \in LogRuns |-> <<>>]
    /\ nEmitted = 0

\* No InputTask was created.
TaskIdle ==
    /\ taskCreated = FALSE
    /\ selfValue = None
    /\ executeGiven = FALSE
    /\ executeValue = None
    /\ executeResult = None
    /\ executions = 0

\* constant_pad was not called.
PadIdle ==
    /\ padShape = <<1, 1>>
    /\ multiple_of = <<1, 1>>
    /\ up_down_rule = "even"
    /\ left_right_rule = "even"
    /\ padState = "called"
    /\ padWidths = <<<<0, 0>>, <<0, 0>>>>
    /\ padResultShape = None

\* No OutputTask was created.
OutIdle ==
    /\ outState = "none"
    /\ outName = None
    /\ outFeatures = None
    /\ outData = None
    /\ outDataNow = None
    /\ outResult = None
    /\ outResultIsData = FALSE

\* deep_eq was not called.
EqIdle ==
    /\ fst_obj = None
    /\ snd_obj = None
    /\ eqCalled = FALSE
    /\ eqResult = FALSE
    /\ eqSwappedCalled = FALSE
    /\ eqSwappedResult = FALSE

\* ------------------------------------------------- Ray: helper operators

\* [None] * n
NoneList(n) == [i \in 1 .. n |-> None]

\* _make_copy_and_empty_given(items): the copy that is returned.
make_copy_and_empty_given_copy(items) == items

\* _make_copy_and_empty_given(items): the given list afterwards.
make_copy_and_empty_given_given(items) == <<>>

\* {id(future): index for index, future in enumerate(futures)}: a later index
\* replaces an earlier one of the same key.
IdToPositionMap(futs) ==
    [h \in Range(futs) |->
        (CHOOSE i \in 1 .. Len(futs) :
            futs[i] = h /\ \A j \in 1 .. Len(futs) : futs[j] = h => j <= i) - 1]

\* ray.wait(futures, num_returns=len(futures), timeout=...): the futures that are
\* no longer pending when the wait ends, in the order of the list given ...
RayWaitReady(futs, state) ==
    LET NoLongerPending(h) == state[h] /= "pending"
    IN  SelectSeq(futs, NoLongerPending)

\* A faulty variant of RayWaitNotReady: the list stays as it was (the second
\* value of ray.wait is not taken over).
RayWaitNotReady_KeepsAll(futs, state) == futs

\* ... and the rest, which join_ray_futures_iter keeps as its `futures`.
RayWaitNotReady(futs, state) ==
    LET Pending(h) == state[h] = "pending"
    IN  SelectSeq(futs, Pending)

\* ray.get(done) raises when the worker of one of the futures was lost.
RayGetRaises(ready, state) == \E i \in 1 .. Len(ready) : state[ready[i]] = "lost"

\* zip(done, ray.get(done))
ZipDoneResults(ready, args) ==
    [i \in 1 .. Len(ready) |-> <<ready[i], execute_workflow(args[ready[i]])>>]

\* A faulty variant of StoreResult: the result goes to the first free slot, in
\* the order of arrival, whatever the position.
StoreResult_ArrivalOrder(res, position, result) ==
    IF \E i \in 1 .. Len(res) : res[i] = None
       THEN [res EXCEPT ![CHOOSE i \in 1 .. Len(res) :
                             res[i] = None /\ \A j \in 1 .. i - 1 : res[j] /= None] = result]
       ELSE res

\* results[position] = result
StoreResult(res, position, result) == [res EXCEPT ![position + 1] = result]

\* ----------------------------------------------------------- Ray: actions

InitRay ==
    /\ LogIdle
    /\ TaskIdle
    /\ PadIdle
    /\ OutIdle
    /\ EqIdle
    /\ rayInitialized \in BOOLEAN
    /\ capacityQueried = FALSE
    /\ processing_args \in SeqsUpTo(WorkflowArgs, MaxRuns)
    /\ pc = "start"
    /\ remoteArgs = [h \in Handles |-> "unset"]
    /\ futureState = [h \in Handles |-> "none"]
    /\ callerFutures = <<>>
    /\ futures = <<>>
    /\ id_to_position_map = <<>>
    /\ done = <<>>
    /\ future = Unbound
    /\ pairs = <<>>
    /\ results = <<>>
    /\ emitted = <<>>
    /\ joinInput = <<>>
    /\ joins = 0

\* A faulty variant of Run: the cluster is not checked.
Run_NoClusterCheck ==
    /\ pc = "start"
    /\ capacityQueried' = TRUE
    /\ pc' = "run_execution"
    /\ UNCHANGED notRayVars
    /\ UNCHANGED <<rayInitialized, processing_args, remoteArgs, futureState, callerFutures,
                   futures, id_to_position_map, done, future, pairs, results, emitted,
                   joinInput, joins>>

\* RayExecutor.run: refuses to run without a cluster, else asks the cluster for its
\* CPUs and hands over to EOExecutor.run, which calls _run_execution.
Run ==
    /\ pc = "start"
    /\ IF ~rayInitialized
          THEN /\ pc' = "RuntimeError"
               /\ UNCHANGED capacityQueried
          ELSE /\ capacityQueried' = TRUE
               /\ pc' = "run_execution"
    /\ UNCHANGED notRayVars
    /\ UNCHANGED <<rayInitialized, processing_args, remoteArgs, futureState, callerFutures,
                   futures, id_to_position_map, done, future, pairs, results, emitted,
                   joinInput, joins>>

\* RayExecutor._run_execution: one remote call per run, in the order of
\* processing_args; every call returns a new ObjectRef.
RunExecution ==
    /\ pc = "run_execution"
    /\ \E refs \in InjectiveSeqs(Handles, Len(processing_args)) :
          /\ callerFutures' = refs
          /\ remoteArgs' = [h \in Handles |->
                               IF \E i \in 1 .. Len(refs) : refs[i] = h
                                  THEN processing_args[CHOOSE i \in 1 .. Len(refs) : refs[i] = h]
                                  ELSE "unset"]
          /\ futureState' = [h \in Handles |-> IF h \in Range(refs) THEN "pending" ELSE "none"]
    /\ pc' = "join"
    /\ UNCHANGED notRayVars
    /\ UNCHANGED <<rayInitialized, capacityQueried, processing_args, futures,
                   id_to_position_map, done, future, pairs, results, emitted, joinInput,
                   joins>>

\* _ray_workflow_executor on a worker: the workflow of the run was executed and
\* its WorkflowResults stored for the future.
WorkerReturns(h) ==
    /\ futureState[h] = "pending"
    /\ futureState' = [futureState EXCEPT ![h] = "ready"]
    /\ UNCHANGED notRayVars
    /\ UNCHANGED <<rayInitialized, capacityQueried, processing_args, pc, remoteArgs,
                   callerFutures, futures, id_to_position_map, done, future, pairs, results,
                   emitted, joinInput, joins>>

\* The worker of a future terminated before it returned: the cluster stores an
\* error for the future, which is then no longer pending.
WorkerLost(h) ==
    /\ futureState[h] = "pending"
    /\ futureState' = [futureState EXCEPT ![h] = "lost"]
    /\ UNCHANGED notRayVars
    /\ UNCHANGED <<rayInitialized, capacityQueried, processing_args, pc, remoteArgs,
                   callerFutures, futures, id_to_position_map, done, future, pairs, results,
                   emitted, joinInput, joins>>

\* join_ray_futures(futures), up to the first next() of the generator.
JoinRayFutures ==
    /\ pc = "join"
    /\ results' = NoneList(Len(callerFutures))
    /\ joinInput' = callerFutures
    /\ joins' = joins + 1
    /\ emitted' = <<>>
    /\ pc' = "iter_start"
    /\ UNCHANGED notRayVars
    /\ UNCHANGED <<rayInitialized, capacityQueried, processing_args, remoteArgs, futureState,
                   callerFutures, futures, id_to_position_map, done, future, pairs>>

\* A faulty variant of JoinIterStart: the generator works on a plain copy and
\* leaves the given list as it is.
JoinIterStart_KeepsGiven ==
    /\ pc = "iter_start"
    /\ futures' = callerFutures
    /\ id_to_position_map' = IdToPositionMap(futures')
    /\ done' = <<>>
    /\ future' = Unbound
    /\ pairs' = <<>>
    /\ pc' = "while"
    /\ UNCHANGED notRayVars
    /\ UNCHANGED <<rayInitialized, capacityQueried, processing_args, remoteArgs, futureState,
                   callerFutures, results, emitted, joinInput, joins>>

\* join_ray_futures_iter, from its first line to the head of its while loop.  The
\* locals `done` and `future` of a new generator are unbound.
JoinIterStart ==
    /\ pc = "iter_start"
    /\ futures' = make_copy_and_empty_given_copy(callerFutures)
    /\ callerFutures' = make_copy_and_empty_given_given(callerFutures)
    /\ id_to_position_map' = IdToPositionMap(futures')
    /\ done' = <<>>
    /\ future' = Unbound
    /\ pairs' = <<>>
    /\ pc' = "while"
    /\ UNCHANGED notRayVars
    /\ UNCHANGED <<rayInitialized, capacityQueried, processing_args, remoteArgs, futureState,
                   results, emitted, joinInput, joins>>

\* One poll cycle: `while futures:` holds, ray.wait returns, and ray.get(done)
\* either raises or returns the values the for loop will go through.
Wait ==
    /\ pc = "while"
    /\ futures /= <<>>
    /\ done' = RayWaitReady(futures, futureState)
    /\ futures' = RayWaitNotReady(futures, futureState)
    /\ IF RayGetRaises(done', futureState)
          THEN /\ pc' = "RayError"
               /\ pairs' = <<>>
          ELSE /\ pairs' = ZipDoneResults(done', remoteArgs)
               /\ pc' = IF pairs' = <<>> THEN "while" ELSE "for"
    /\ UNCHANGED notRayVars
    /\ UNCHANGED <<rayInitialized, capacityQueried, processing_args, remoteArgs, futureState,
                   callerFutures, id_to_position_map, future, results, emitted, joinInput,
                   joins>>

\* One iteration of the for loop: the generator yields (position, result) and
\* join_ray_futures stores the result at the position.
Yield ==
    /\ pc = "for"
    /\ pairs /= <<>>
    /\ future' = Head(pairs)[1]
    /\ LET position == id_to_position_map[future']
           result == Head(pairs)[2]
       IN  /\ emitted' = Append(emitted, <<position, result>>)
           /\ results' = StoreResult(results, position, result)
    /\ pairs' = Tail(pairs)
    /\ pc' = IF pairs' = <<>> THEN "while" ELSE "for"
    /\ UNCHANGED notRayVars
    /\ UNCHANGED <<rayInitialized, capacityQueried, processing_args, remoteArgs, futureState,
                   callerFutures, futures, id_to_position_map, done, joinInput, joins>>

\* A faulty variant of Exit: the loop also ends after a poll cycle in which
\* nothing completed.
Exit_OnEmptyPoll ==
    /\ pc = "while"
    /\ futures = <<>> \/ (done = <<>> /\ emitted /= <<>>)
    /\ pc' = "returned"
    /\ UNCHANGED notRayVars
    /\ UNCHANGED <<rayInitialized, capacityQueried, processing_args, remoteArgs, futureState,
                   callerFutures, futures, id_to_position_map, done, future, pairs, results,
                   emitted, joinInput, joins>>

\* `while futures:` fails: the generator is exhausted and join_ray_futures
\* returns its results.
Exit ==
    /\ pc = "while"
    /\ futures = <<>>
    /\ pc' = "returned"
    /\ UNCHANGED notRayVars
    /\ UNCHANGED <<rayInitialized, capacityQueried, processing_args, remoteArgs, futureState,
                   callerFutures, futures, id_to_position_map, done, future, pairs, results,
                   emitted, joinInput, joins>>

\* The caller joins the list it passed once more.
Rejoin ==
    /\ pc = "returned"
    /\ joins < MaxJoins
    /\ pc' = "join"
    /\ UNCHANGED notRayVars
    /\ UNCHANGED <<rayInitialized, capacityQueried, processing_args, remoteArgs, futureState,
                   callerFutures, futures, id_to_position_map, done, future, pairs, results,
                   emitted, joinInput, joins>>

Joiner == JoinRayFutures \/ JoinIterStart \/ Wait \/ Yield \/ Exit

NextRay ==
    \/ Run
    \/ RunExecution
    \/ \E h \in Handles : WorkerReturns(h)
    \/ \E h \in Handles : WorkerLost(h)
    \/ Joiner
    \/ Rejoin

SpecRay == InitRay /\ [][NextRay]_vars

\* The joiner is a running loop: it takes its next step whenever it has one.
FairSpecRay == SpecRay /\ WF_vars(Joiner)

\* ------------------------------------------------------ Ray: properties

\* The future that was at position p of the list given to the join.
FutureAt(p) == joinInput[p + 1]

\* The value of a future whose worker returned.
ValueOf(h) == execute_workflow(remoteArgs[h])

EmittedPositions == {emitted[i][1] : i \in 1 .. Len(emitted)}

\* The futures join_ray_futures_iter has yielded the value of.
EmittedFutures == {FutureAt(emitted[i][1]) : i \in 1 .. Len(emitted)}

\* C1: when join_ray_futures returns, its list has as many elements as the list
\* it was given, and the element at index i is the value of the future that was
\* at position i of that list, whatever the order the futures completed in.
C1_EagerJoinAligned ==
    pc = "returned" =>
        /\ Len(results) = Len(joinInput)
        /\ \A i \in 1 .. Len(joinInput) : results[i] = ValueOf(joinInput[i])

\* C1's case: three runs with different values were joined, and the future at
\* the last position was the first to be yielded.
C1_Witness ==
    /\ pc = "returned"
    /\ joins = 1
    /\ Len(joinInput) = 3
    /\ processing_args[1] /= processing_args[3]
    /\ emitted[1][1] = 2
    /\ emitted[3][1] = 0

\* C2: join_ray_futures_iter never yields a position twice; every pair it yields
\* is a position of the list given, of a future that ray.wait has reported (it is
\* no longer pending and no longer tracked), with the value of the future that
\* was at that position; and once exhausted it has yielded every position of the
\* list, N pairs for N futures.
C2_LazyJoinExactlyOnce ==
    /\ \A i, j \in 1 .. Len(emitted) : emitted[i][1] = emitted[j][1] => i = j
    /\ \A i \in 1 .. Len(emitted) :
          /\ emitted[i][1] \in 0 .. Len(joinInput) - 1
          /\ futureState[FutureAt(emitted[i][1])] = "ready"
          /\ FutureAt(emitted[i][1]) \notin Range(futures)
          /\ emitted[i][2] = ValueOf(FutureAt(emitted[i][1]))
    /\ pc = "returned" =>
          /\ Len(emitted) = Len(joinInput)
          /\ EmittedPositions = 0 .. Len(joinInput) - 1

\* C2's case: the generator of three futures is exhausted after it yielded them
\* in three different poll cycles, the middle position first.
C2_Witness ==
    /\ pc = "returned"
    /\ Len(joinInput) = 3
    /\ Len(emitted) = 3
    /\ emitted[1][1] = 1
    /\ emitted[2][1] = 2
    /\ done = <<FutureAt(0)>>

\* C3: a lost worker does not make the backend raise: _run_execution still
\* returns one WorkflowResults per run, in input order, a failed one in the slot
\* of the lost run and the results of the other runs as they are.
C3_WorkerLostGivesFailedResult ==
    (\E h \in Handles : futureState[h] = "lost") =>
        /\ pc /= "RayError"
        /\ (pc = "returned" /\ joins = 1) =>
              /\ Len(results) = Len(processing_args)
              /\ \A i \in 1 .. Len(joinInput) :
                    IF futureState[joinInput[i]] = "lost"
                       THEN results[i] /= None /\ results[i][3] = TRUE
                       ELSE results[i] = ValueOf(joinInput[i])

\* C4: without an initialized cluster RayExecutor.run ends with its RuntimeError
\* and nothing else happens: no remote call is made, no workflow is executed, the
\* resources of the cluster are not asked for.
C4_NoClusterNoDispatch ==
    ~rayInitialized =>
        /\ pc \in {"start", "RuntimeError"}
        /\ ~capacityQueried
        /\ \A h \in Handles : futureState[h] = "none"
        /\ callerFutures = <<>>
        /\ joins = 0

\* C4's case: run was called with three runs and no cluster, and has raised.
C4_Witness ==
    /\ ~rayInitialized
    /\ pc = "RuntimeError"
    /\ Len(processing_args) = 3

\* join_ray_futures was called and has neither returned nor raised.
Joining == pc \in {"join", "iter_start", "while", "for"}

\* Every future of the executor was submitted and its worker has returned.
AllWorkersReturned ==
    /\ \A h \in Handles : futureState[h] \in {"none", "ready"}
    /\ \E h \in Handles : futureState[h] = "ready"

\* C5: once the worker of every future has returned, the join ends with nothing
\* left to track; it does not end while a future is pending; and a poll cycle in
\* which ray.wait reports nothing yields nothing and tracks what it tracked.
C5_PollsUntilAllConsumed ==
    /\ (Joining /\ AllWorkersReturned) ~> (pc = "returned" /\ futures = <<>>)
    /\ [](pc = "returned" =>
             /\ futures = <<>>
             /\ \A i \in 1 .. Len(joinInput) : futureState[joinInput[i]] /= "pending")
    /\ [][(pc = "while" /\ futures /= <<>> /\ done' = <<>>) =>
             /\ pc' = "while"
             /\ futures' = futures
             /\ emitted' = emitted
             /\ results' = results]_vars

\* C5's case: a poll cycle reported nothing while one future was already yielded
\* and two are pending.
C5_Witness ==
    /\ pc = "while"
    /\ Len(futures) = 2
    /\ done = <<>>
    /\ Len(emitted) = 1
    /\ \A i \in 1 .. 2 : futureState[futures[i]] = "pending"

\* C6: when a poll cycle starts, no variable of join_ray_futures_iter refers to a
\* future it has yielded the value of (id_to_position_map holds numbers, not
\* futures).
C6_YieldedFutureDropped ==
    (pc = "while" /\ futures /= <<>>) =>
        EmittedFutures \cap (Range(futures) \cup Range(done) \cup {future}) = {}

\* C7: when the join has returned the list the caller passed is empty, and a
\* second join of that list yields nothing and returns an empty list.
C7_GivenListConsumed ==
    /\ pc = "returned" => callerFutures = <<>>
    /\ (pc = "returned" /\ joins >= 2) => (results = <<>> /\ emitted = <<>>)

\* C7's case: a list of three futures was joined, and then joined again.
C7_Witness ==
    /\ pc = "returned"
    /\ joins = 2
    /\ Len(processing_args) = 3
    /\ \A h \in Handles : futureState[h] = "ready"


\* ------------------------------------------------------ log file filter

\* The name of a thread: "MainThread", and "ThreadPoolExecutor-0_<n>" for the
\* n-th thread of the pool.
ThreadName(t) == IF t = MainThread THEN <<"MainThread">> ELSE <<"ThreadPoolExecutor-0", t - 1>>

\* The n-th LogRecord of the process, created by thread t.
LogRecord(t, n) == [thread |-> t, threadName |-> ThreadName(t), msg |-> n]

\* LogFileFilter.__init__
LogFileFilter_init(thread_name) == [thread_name |-> thread_name]

\* A faulty variant of LogFileFilter_filter: every record passes.
LogFileFilter_filter_AcceptsAll(self, record) == TRUE

\* LogFileFilter.filter
LogFileFilter_filter(self, record) == record.threadName = self.thread_name

\* Handler.handle: a record is written when every filter of the handler lets it
\* pass.
HandlerAccepts(filters, record) ==
    \A i \in 1 .. Len(filters) : LogFileFilter_filter(filters[i], record)

\* The pool is idle, no run was taken and nothing was logged; the handlers will
\* be given a LogFileFilter of the name of the current thread or of no name.
InitLog ==
    /\ RayIdle
    /\ TaskIdle
    /\ PadIdle
    /\ OutIdle
    /\ EqIdle
    /\ filterByThread \in BOOLEAN
    /\ threadRun = [t \in WorkerThreads |-> 0]
    /\ runThread = [r \in LogRuns |-> NoThread]
    /\ runState = [r \in LogRuns |-> "queued"]
    /\ handlerFilter = [r \in LogRuns |-> <<>>]
    /\ stream = [r \in LogRuns |-> <<>>]
    /\ ownRecords = [r \in LogRuns |-> <<>>]
    /\ passedRecords = [r \in LogRuns |-> <<>>]
    /\ nEmitted = 0

\* An idle worker thread takes the next run of the queue: the handler of the
\* run's log file is added to the logger, with its LogFileFilter.
StartRun(t, r) ==
    /\ threadRun[t] = 0
    /\ runState[r] = "queued"
    /\ \A q \in 1 .. r - 1 : runState[q] /= "queued"
    /\ threadRun' = [threadRun EXCEPT ![t] = r]
    /\ runThread' = [runThread EXCEPT ![r] = t]
    /\ runState' = [runState EXCEPT ![r] = "running"]
    /\ LET thread_name == IF filterByThread THEN ThreadName(t) ELSE None
       IN  handlerFilter' = [handlerFilter EXCEPT ![r] = <<LogFileFilter_init(thread_name)>>]
    /\ UNCHANGED <<filterByThread, stream, ownRecords, passedRecords, nEmitted>>
    /\ UNCHANGED notLogVars

\* A thread logs a record: the logger hands it to every handler it has, that is
\* to the handler of every running run.
Emit(t) ==
    /\ IF t = MainThread THEN TRUE ELSE threadRun[t] /= 0
    /\ nEmitted < MaxRecords
    /\ nEmitted' = nEmitted + 1
    /\ LET record == LogRecord(t, nEmitted + 1)
       IN  /\ passedRecords' = [r \in LogRuns |->
                                   IF runState[r] = "running"
                                      THEN Append(passedRecords[r], record)
                                      ELSE passedRecords[r]]
           /\ stream' = [r \in LogRuns |->
                            IF runState[r] = "running" /\ HandlerAccepts(handlerFilter[r], record)
                               THEN Append(stream[r], record)
                               ELSE stream[r]]
           /\ ownRecords' = [r \in LogRuns |->
                                IF t /= MainThread /\ threadRun[t] = r
                                   THEN Append(ownRecords[r], record)
                                   ELSE ownRecords[r]]
    /\ UNCHANGED <<filterByThread, threadRun, runThread, runState, handlerFilter>>
    /\ UNCHANGED notLogVars

\* The run of a thread ends: its handler is closed and removed from the logger.
FinishRun(t) ==
    /\ threadRun[t] /= 0
    /\ runState' = [runState EXCEPT ![threadRun[t]] = "finished"]
    /\ threadRun' = [threadRun EXCEPT ![t] = 0]
    /\ UNCHANGED <<filterByThread, runThread, handlerFilter, stream, ownRecords, passedRecords,
                   nEmitted>>
    /\ UNCHANGED notLogVars

NextLog ==
    \/ \E t \in WorkerThreads, r \in LogRuns : StartRun(t, r)
    \/ \E t \in Threads : Emit(t)
    \/ \E t \in WorkerThreads : FinishRun(t)

SpecLog == InitLog /\ [][NextLog]_vars

\* The handler of run r was given a LogFileFilter of the name of its thread.
FilteredByThread(r) ==
    /\ runState[r] /= "queued"
    /\ handlerFilter[r] = <<LogFileFilter_init(ThreadName(runThread[r]))>>

\* The handler of run r was given a LogFileFilter of no name.
FilteredByNone(r) ==
    /\ runState[r] /= "queued"
    /\ handlerFilter[r] = <<LogFileFilter_init(None)>>

\* C8: the LogFileFilter made for the thread of a run lets a record pass exactly
\* when that thread emitted it, so the stream of the run holds the records its
\* thread emitted while it ran, all of them and in their order, and no record
\* of another run.
C8_LogCaptureIsolated ==
    \A r \in LogRuns : FilteredByThread(r) =>
        /\ \A t \in Threads, n \in 1 .. MaxRecords :
              LogFileFilter_filter(handlerFilter[r][1], LogRecord(t, n)) <=> t = runThread[r]
        /\ stream[r] = ownRecords[r]
        /\ \A q \in LogRuns \ {r} : Range(stream[r]) \cap Range(ownRecords[q]) = {}

\* C8's case: two runs on two threads run at the same time, both filtered by
\* thread, and their records and one of the main thread were interleaved.
C8_Witness ==
    /\ runState = [r \in LogRuns |-> "running"]
    /\ \A r \in LogRuns : FilteredByThread(r)
    /\ Len(passedRecords[1]) = 3
    /\ Len(passedRecords[2]) = 3
    /\ Len(stream[1]) = 1
    /\ Len(stream[2]) = 1
    /\ ownRecords[1][1].msg = 3
    /\ ownRecords[2][1].msg = 1

\* C9: a LogFileFilter of thread_name None filters nothing: the handler writes
\* every record it is handed, whatever thread emitted it.
C9_NoneFilterAcceptsAll ==
    \A r \in LogRuns : FilteredByNone(r) => stream[r] = passedRecords[r]

\* ------------------------------------------------------------ InputTask

\* The values a task is given: None, numbers, strings, booleans, lists.
PyValues ==
    {None, <<"int", 0>>, <<"int", 7>>, <<"str", "">>, <<"str", "a">>, <<"bool", FALSE>>,
     <<"list", <<>>>>}

\* bool(x)
PyBool(x) ==
    IF x = None THEN FALSE
    ELSE IF x[1] = "int" THEN x[2] /= 0
    ELSE IF x[1] = "str" THEN x[2] /= ""
    ELSE IF x[1] = "bool" THEN x[2]
    ELSE Len(x[2]) > 0

\* x or y
PyOr(x, y) == IF PyBool(x) THEN x ELSE y

InitTask == RayIdle /\ LogIdle /\ TaskIdle /\ PadIdle /\ OutIdle /\ EqIdle

\* InputTask.__init__(value)
InputTask_init(value) ==
    /\ ~taskCreated
    /\ taskCreated' = TRUE
    /\ selfValue' = value
    /\ UNCHANGED <<executeGiven, executeValue, executeResult, executions>>
    /\ UNCHANGED notTaskVars

\* InputTask.execute(value=value), or InputTask.execute() when nothing is given.
InputTask_execute(given, value) ==
    /\ taskCreated
    /\ executions < MaxExecutions
    /\ executions' = executions + 1
    /\ executeGiven' = given
    /\ executeValue' = (IF given THEN value ELSE None)
    /\ executeResult' = PyOr(executeValue', selfValue)
    /\ UNCHANGED <<taskCreated, selfValue>>
    /\ UNCHANGED notTaskVars

NextTask ==
    \/ \E value \in PyValues : InputTask_init(value)
    \/ \E given \in BOOLEAN, value \in PyValues : InputTask_execute(given, value)

SpecTask == InitTask /\ [][NextTask]_vars

\* C10: execute returns the value it was given whenever one is set, whatever the
\* value, and the value of the initialization only when none is set.
C10_ExecuteValueWins ==
    executions > 0 =>
        IF executeGiven /\ executeValue /= None
           THEN executeResult = executeValue
           ELSE executeResult = selfValue

\* ---------------------------------------------------------- constant_pad

\* The values given as up_down_rule: the three supported ones and another.
UpDownRules == {"even", "up", "down", "left"}

\* The values given as left_right_rule: the three supported ones and another.
LeftRightRules == {"even", "left", "right", "up"}

\* int(a / b) for a >= 0 and b > 0: the quotient rounded towards zero.
IntDiv(a, b) == a \div b

\* The padding of one axis of length n to a multiple of m: nothing when n is a
\* multiple of m already.
AxisPadding(n, m) == IF n % m /= 0 THEN (IntDiv(n, m) + 1) * m - n ELSE 0

\* The split of the padding of the rows: (row_padding_up, row_padding_down).
RowSplit(padding, rule) ==
    IF padding > 0 /\ rule = "up" THEN <<padding, 0>>
    ELSE IF padding > 0 /\ rule = "down" THEN <<0, padding>>
    ELSE IF padding > 0 /\ rule = "even"
        THEN <<IntDiv(padding, 2), IntDiv(padding, 2) + (padding % 2)>>
    ELSE <<0, 0>>

\* The split of the padding of the columns: (col_padding_left, col_padding_right).
ColSplit(padding, rule) ==
    IF padding > 0 /\ rule = "left" THEN <<padding, 0>>
    ELSE IF padding > 0 /\ rule = "right" THEN <<0, padding>>
    ELSE IF padding > 0 /\ rule = "even"
        THEN <<IntDiv(padding, 2), IntDiv(padding, 2) + (padding % 2)>>
    ELSE <<0, 0>>

\* np.lib.pad(X, ((up, down), (left, right)), "constant", ...): the shape.
NpPadShape(shape, widths) ==
    <<shape[1] + widths[1][1] + widths[1][2], shape[2] + widths[2][1] + widths[2][2]>>

\* constant_pad is called with an image of at least one row and one column,
\* positive entries of multiple_of and any two rules.
InitPad ==
    /\ RayIdle
    /\ LogIdle
    /\ TaskIdle
    /\ OutIdle
    /\ EqIdle
    /\ padShape \in (1 .. MaxDim) \X (1 .. MaxDim)
    /\ multiple_of \in (1 .. MaxMultiple) \X (1 .. MaxMultiple)
    /\ up_down_rule \in UpDownRules
    /\ left_right_rule \in LeftRightRules
    /\ padState = "called"
    /\ padWidths = <<<<0, 0>>, <<0, 0>>>>
    /\ padResultShape = None

\* constant_pad(X, multiple_of, up_down_rule, left_right_rule)
constant_pad ==
    /\ padState = "called"
    /\ LET row_padding == AxisPadding(padShape[1], multiple_of[1])
           col_padding == AxisPadding(padShape[2], multiple_of[2])
           rowRuleBad == row_padding > 0 /\ up_down_rule \notin {"up", "down", "even"}
           colRuleBad == col_padding > 0 /\ left_right_rule \notin {"left", "right", "even"}
       IN  IF rowRuleBad \/ colRuleBad
              THEN /\ padState' = "ValueError"
                   /\ UNCHANGED <<padWidths, padResultShape>>
              ELSE /\ padState' = "returned"
                   /\ padWidths' = <<RowSplit(row_padding, up_down_rule),
                                     ColSplit(col_padding, left_right_rule)>>
                   /\ padResultShape' = NpPadShape(padShape, padWidths')
    /\ UNCHANGED <<padShape, multiple_of, up_down_rule, left_right_rule>>
    /\ UNCHANGED notPadVars

NextPad == constant_pad

SpecPad == InitPad /\ [][NextPad]_vars

\* The padding of an axis by the rule of the docstring of constant_pad.
DocPadding(n, m) == (IntDiv(n, m) + 1) * m - n

\* C11: constant_pad returns an array of shape (rows + padded_rows, columns +
\* padded_columns) with padded_rows = (int(rows/multiple_of[0]) + 1) *
\* multiple_of[0] - rows, and the same for the columns.
C11_PaddedShapeByRule ==
    padState = "returned" =>
        padResultShape = <<padShape[1] + DocPadding(padShape[1], multiple_of[1]),
                           padShape[2] + DocPadding(padShape[2], multiple_of[2])>>

\* ----------------------------------------------------------- OutputTask

FeatureNames == 1 .. NumFeatures

\* An EOPatch that holds the features of a set of names.
EOPatch(names) == <<"EOPatch", names>>

EOPatches == {EOPatch(names) : names \in SUBSET FeatureNames}

\* isinstance(data, EOPatch)
IsEOPatch(data) == data /= None /\ data[1] = "EOPatch"

\* The values given as `features`: ... (every feature) or a collection of names.
Ellipsis == <<"...">>

FeatureSelections == {Ellipsis} \cup {<<"features", names>> : names \in SUBSET FeatureNames}

\* The names a value of `features` keeps of the names of a patch.
SelectedNames(features, names) ==
    IF features = Ellipsis THEN names ELSE names \cap features[2]

\* EOPatch.copy(features=features): the new EOPatch that is returned.
EOPatch_copy(patch, features) == EOPatch(SelectedNames(features, patch[2]))

\* EOPatch.copy(features=features): the EOPatch that was copied, afterwards.
EOPatch_copy_self(patch, features) == patch

\* generate_uid(prefix)
generate_uid(prefix) == <<"uid", prefix>>

InitOut == RayIdle /\ LogIdle /\ TaskIdle /\ PadIdle /\ OutIdle /\ EqIdle

\* OutputTask.__init__(name, features)
OutputTask_init(name, features) ==
    /\ outState = "none"
    /\ outState' = "created"
    /\ outName' = PyOr(name, generate_uid("output"))
    /\ outFeatures' = features
    /\ UNCHANGED <<outData, outDataNow, outResult, outResultIsData>>
    /\ UNCHANGED notOutVars

\* A faulty variant of OutputTask_execute: the features are removed from the
\* EOPatch that was received, which is returned.
OutputTask_execute_InPlace(data) ==
    /\ outState = "created"
    /\ outState' = "returned"
    /\ outData' = data
    /\ outDataNow' = (IF IsEOPatch(data) THEN EOPatch_copy(data, outFeatures) ELSE data)
    /\ outResult' = outDataNow'
    /\ outResultIsData' = TRUE
    /\ UNCHANGED <<outName, outFeatures>>
    /\ UNCHANGED notOutVars

\* OutputTask.execute(data)
OutputTask_execute(data) ==
    /\ outState = "created"
    /\ outState' = "returned"
    /\ outData' = data
    /\ IF IsEOPatch(data)
          THEN /\ outResult' = EOPatch_copy(data, outFeatures)
               /\ outDataNow' = EOPatch_copy_self(data, outFeatures)
               /\ outResultIsData' = FALSE
          ELSE /\ outResult' = data
               /\ outDataNow' = data
               /\ outResultIsData' = TRUE
    /\ UNCHANGED <<outName, outFeatures>>
    /\ UNCHANGED notOutVars

NextOut ==
    \/ \E name \in {None, <<"str", "">>, <<"str", "a">>}, features \in FeatureSelections :
          OutputTask_init(name, features)
    \/ \E data \in PyValues \cup EOPatches : OutputTask_execute(data)

SpecOut == InitOut /\ [][NextOut]_vars

\* C12: execute leaves the data it received as it was; for an EOPatch it returns
\* another EOPatch that holds the configured features of the one received, and
\* for any other value it returns the value it received.
C12_ExecuteLeavesData ==
    outState = "returned" =>
        /\ outDataNow = outData
        /\ IF IsEOPatch(outData)
              THEN /\ ~outResultIsData
                   /\ IsEOPatch(outResult)
                   /\ outResult[2] = {f \in outData[2] :
                                         outFeatures = Ellipsis \/ f \in outFeatures[2]}
              ELSE /\ outResultIsData
                   /\ outResult = outData

\* C12's case: an EOPatch of two features was given to a task configured with
\* one of them.
C12_Witness ==
    /\ outState = "returned"
    /\ outData = EOPatch({1, 2})
    /\ outFeatures = <<"features", {2}>>
    /\ outResult = EOPatch({2})

\* --------------------------------------------------------------- deep_eq

\* An object is <<type, content>>: a bool or an int with its value, a list or a
\* tuple with the sequence of its elements, a dict or an OrderedDict with the
\* sequence of its (key, value) items.  bool is a subtype of int and OrderedDict
\* one of dict.
Scalars == {<<"bool", FALSE>>, <<"bool", TRUE>>, <<"int", 0>>, <<"int", 1>>}

DictKeys == {"a", "b"}

DictItems ==
    {items \in SeqsUpTo(DictKeys \X Scalars, Cardinality(DictKeys)) :
        \A i, j \in 1 .. Len(items) : items[i][1] = items[j][1] => i = j}

\* The containers of scalars.
FlatContainers ==
    ({"list", "tuple"} \X SeqsUpTo(Scalars, MaxLen)) \cup ({"dict", "OrderedDict"} \X DictItems)

\* The objects compared: scalars, containers of scalars, and lists and dicts of
\* one container.
DeepValues ==
    Scalars \cup FlatContainers
        \cup {<<"list", <<c>>>> : c \in FlatContainers}
        \cup {<<"dict", <<<<"a", c>>>>>> : c \in FlatContainers}

\* type(obj)
TypeOf(obj) == obj[1]

\* issubclass(sub, super)
IsSubclass(sub, super) ==
    \/ sub = super
    \/ sub = "bool" /\ super = "int"
    \/ sub = "OrderedDict" /\ super = "dict"

\* isinstance(obj, type)
IsInstance(obj, type) == IsSubclass(TypeOf(obj), type)

\* The number a bool or an int compares as.
NumberOf(obj) == IF TypeOf(obj) = "bool" THEN (IF obj[2] THEN 1 ELSE 0) ELSE obj[2]

\* dict.keys()
KeysOf(obj) == {obj[2][i][1] : i \in 1 .. Len(obj[2])}

\* dict[key]
ItemOf(obj, key) == obj[2][CHOOSE i \in 1 .. Len(obj[2]) : obj[2][i][1] = key][2]

\* deep_eq(fst, snd).  No object compared here is an np.ndarray or a
\* GeoDataFrame, so the two branches for them are never taken.
RECURSIVE deep_eq(_, _)
deep_eq(fst, snd) ==
    IF ~IsInstance(fst, TypeOf(snd)) THEN FALSE
    ELSE IF IsInstance(fst, "list") \/ IsInstance(fst, "tuple")
        THEN /\ Len(fst[2]) = Len(snd[2])
             /\ \A i \in 1 .. Len(fst[2]) : deep_eq(fst[2][i], snd[2][i])
    ELSE IF IsInstance(fst, "dict")
        THEN /\ KeysOf(fst) = KeysOf(snd)
             /\ \A key \in KeysOf(fst) : deep_eq(ItemOf(fst, key), ItemOf(snd, key))
    ELSE NumberOf(fst) = NumberOf(snd)

InitEq ==
    /\ RayIdle
    /\ LogIdle
    /\ TaskIdle
    /\ PadIdle
    /\ OutIdle
    /\ fst_obj \in DeepValues
    /\ snd_obj \in DeepValues
    /\ eqCalled = FALSE
    /\ eqResult = FALSE
    /\ eqSwappedCalled = FALSE
    /\ eqSwappedResult = FALSE

\* deep_eq(fst_obj, snd_obj)
DeepEq ==
    /\ ~eqCalled
    /\ eqCalled' = TRUE
    /\ eqResult' = deep_eq(fst_obj, snd_obj)
    /\ UNCHANGED <<fst_obj, snd_obj, eqSwappedCalled, eqSwappedResult>>
    /\ UNCHANGED notEqVars

\* deep_eq(snd_obj, fst_obj)
DeepEqSwapped ==
    /\ ~eqSwappedCalled
    /\ eqSwappedCalled' = TRUE
    /\ eqSwappedResult' = deep_eq(snd_obj, fst_obj)
    /\ UNCHANGED <<fst_obj, snd_obj, eqCalled, eqResult>>
    /\ UNCHANGED notEqVars

NextEq == DeepEq \/ DeepEqSwapped

SpecEq == InitEq /\ [][NextEq]_vars

\* C13: deep_eq is symmetric: deep_eq(a, b) and deep_eq(b, a) return the same.
C13_DeepEqSymmetric ==
    (eqCalled /\ eqSwappedCalled) => eqResult = eqSwappedResult

====
